---- MODULE Spec2Model ----
(***************************************************************************)
(* Control-plane bridge of src/torrent_gui.py: main(), the loop thread     *)
(* ControlManagerThread (run / async_stop / stop), the asyncio loop it     *)
(* owns, and the single-instance coordination protocol                     *)
(* (find_another_daemon / suggest_torrents against the Listener); and the   *)
(* foreground of MainWindow: the torrent list, the toolbar actions handed   *)
(* to the loop, and the file selection tree of TorrentAddingDialog.         *)
(***************************************************************************)
EXTENDS Integers, Sequences, FiniteSets, TLC

\* ---------------------------------------------------------------- bounds
NumProcs == 2
\* process invocations on the host
NumCallers == 2
\* threads that may call ControlManagerThread.stop(); caller 1 is the foreground
MaxStopCalls == 2
\* stop() calls per ControlManagerThread
MaxFiles == 2
\* file names on one command line

NumTorrents == 3
\* torrents (info hashes) that exist
MaxItems == 3
\* rows of the torrent list when its slots are called directly
MaxAdds == 2
\* torrents submitted to the engine through the adding dialog
MaxSubmits == 3
\* toolbar actions handed to the loop
MaxSignals == 2
\* notifications queued for the foreground before the engine holds back updates
MaxNodes == 5
\* nodes (directories and files) of a torrent's file tree

Proc == 1..NumProcs
Callers == 1..NumCallers
\* Command lines: the first n of the paths "f1", "f2", ... (written 1, 2, ...).
FilenameArgs == {[i \in 1..n |-> i] : n \in 0..MaxFiles}

\* ----------------------------------------------------------------- state
VARIABLES
    filenames,      \* args.filenames of each process
    mainPc,         \* position of main() (the foreground thread)
    windowShown,    \* MainWindow.show() was called
    probeTo,        \* the process whose Listener the probe Client connected to (0: none)
    probeResult,    \* outcome of find_another_daemon: "none", "True", "False", "raised"
    tpc,            \* position of ControlManagerThread.run (the loop thread)
    loop,           \* self._loop: "None", "open", "closed"
    loopStopFlag,   \* the loop's stop request (set by loop.stop())
    iter,           \* the loop's iteration phase: "off", "select", "blocked", "run"
    batch,          \* callbacks left to run in the current iteration
    ready,          \* the loop's FIFO of ready callbacks (task ids)
    task,           \* state of each task on the loop
    engine,         \* the engine (ControlManager): "new", "starting", "started", "stopping", "stopped"
    server,         \* the Listener (ControlServer): "new", "listening", "closed"
    endpoint,       \* the process bound to the well-known endpoint (0: free)
    loads,          \* number of load_state() calls
    loadFailed,     \* load_state() raised
    stopping,       \* self._stopping
    callerPc,       \* position of each caller inside stop()
    stopFut,        \* stop_fut of each caller: "none", "pending", "done"
    cbAdded,        \* stop_fut.add_done_callback was called
    stopCalls,      \* number of stop() calls made
    fgQueue,        \* notifications queued for the foreground (signals across threads)
    ack,            \* the Listener's acknowledgment reached the Client
    emitted,        \* history: the torrents_suggested emissions made for each Client's message
    errorsEmitted   \* history: number of error_happened emissions

VARIABLES
    items,          \* rows of self._list_widget in display order: the item and its widget
    torrent_to_item,\* self._torrent_to_item: info hash -> key of its item (0: no entry)
    selected,       \* keys of the selected rows
    actionEnabled,  \* enabled flags of the Pause / Resume / Remove toolbar actions
    slotOutcome,    \* how the last slot call ended: "ok" or the exception raised
    lastCall,       \* history: the slot last called directly, and its argument
    torrents,       \* the engine's torrents: info hash -> "absent", "running", "paused"
    actQueue,       \* callbacks handed to the loop and not yet run, in FIFO order
    actSuspended,   \* action coroutines suspended at an await
    sigQueue,       \* engine notifications queued for the foreground, in order
    submits,        \* history: number of toolbar actions submitted
    adds,           \* history: number of torrents submitted by the adding dialog
    done,           \* history: per target, the submission numbers of the actions completed
    otherFailures,  \* history: actions that ended with an error other than ValueError
    sinceSwallow    \* history, per target: -1 no action swallowed; k >= 0 swallowed with k
                    \* older updates still queued; -2 an update emitted later was received

VARIABLES
    fileTree,       \* the items of file_tree: parent of each node (0: top level), << >>: no dialog
    checkState,     \* checkState(0) of each item
    selectionLabel, \* what self._selection_label shows: [count, size], count 0: 'Nothing to download'
    okEnabled       \* the OK button is enabled

dialogVars == <<fileTree, checkState, selectionLabel, okEnabled>>
listVars == <<items, torrent_to_item, selected, actionEnabled, slotOutcome>>
actVars == <<torrents, actQueue, actSuspended, sigQueue, submits, adds, done, otherFailures,
             sinceSwallow>>
guiVars == <<listVars, lastCall, actVars, dialogVars>>

mainVars == <<filenames, guiVars, mainPc, windowShown, probeTo, probeResult>>
loopVars == <<loop, loopStopFlag, iter, batch, ready, task>>
engVars == <<engine, server, endpoint, loads, loadFailed>>
stopVars == <<stopping, callerPc, stopFut, cbAdded, stopCalls>>
chanVars == <<fgQueue, ack, emitted, errorsEmitted>>
vars == <<mainVars, tpc, loopVars, engVars, stopVars, chanVars>>

\* ----------------------------------------------------------------- tasks
EngineStartT == <<"engine_start", 0>>
ServerStartT == <<"server_start", 0>>
DumperT == <<"dumper", 0>>
AsyncStopT(c) == <<"async_stop", c>>
ServerStopT(c) == <<"server_stop", c>>
EngineStopT(c) == <<"engine_stop", c>>
ConnT(q) == <<"conn", q>>

TaskIds ==
    {EngineStartT, ServerStartT, DumperT}
    \cup {AsyncStopT(c) : c \in Callers}
    \cup {ServerStopT(c) : c \in Callers}
    \cup {EngineStopT(c) : c \in Callers}
    \cup {ConnT(q) : q \in Proc}

Kind(t) == t[1]
Idx(t) == t[2]

RunPhases == {"run522", "run523", "run531"}
ThreadEnded(p) == tpc[p] \in {"exited", "crashed"}

\* Top of the ready queue, when the loop is running a batch.
Current(p) == Head(ready[p])
Running(p, k) ==
    /\ tpc[p] \in RunPhases
    /\ iter[p] = "run"
    /\ batch[p] > 0
    /\ ready[p] # << >>
    /\ Kind(Current(p)) = k

\* The callback at the head has run: pop it.
Popped(p) ==
    /\ ready' = [ready EXCEPT ![p] = Tail(@)]
    /\ batch' = [batch EXCEPT ![p] = @ - 1]

\* ------------------------------------------------------------------ Init
TorrentIds == 1..NumTorrents
ActionKinds == {"pause", "resume", "remove"}

\* MainWindow.__init__ (lines 326-354): the three actions start disabled, the
\* list and self._torrent_to_item start empty; the engine holds no torrent.
WindowInit ==
    /\ items = << >>
    /\ torrent_to_item = [t \in TorrentIds |-> 0]
    /\ selected = {}
    /\ actionEnabled = [a \in ActionKinds |-> FALSE]
    /\ slotOutcome = "ok"
    /\ lastCall = [op |-> "none", arg |-> 0]
    /\ torrents = [t \in TorrentIds |-> "absent"]
    /\ actQueue = << >>
    /\ actSuspended = {}
    /\ sigQueue = << >>
    /\ submits = 0
    /\ adds = 0
    /\ done = [t \in TorrentIds |-> << >>]
    /\ otherFailures = 0
    /\ sinceSwallow = [t \in TorrentIds |-> -1]

\* No TorrentAddingDialog is open.
NoDialog ==
    /\ fileTree = << >>
    /\ checkState = << >>
    /\ selectionLabel = [count |-> 0, size |-> 0]
    /\ okEnabled = FALSE

ProcInit ==
    /\ filenames \in [Proc -> FilenameArgs]
    /\ mainPc = [p \in Proc |-> "init"]
    /\ windowShown = [p \in Proc |-> FALSE]
    /\ probeTo = [p \in Proc |-> 0]
    /\ probeResult = [p \in Proc |-> "none"]
    /\ tpc = [p \in Proc |-> "unstarted"]
    /\ loop = [p \in Proc |-> "None"]
    /\ loopStopFlag = [p \in Proc |-> FALSE]
    /\ iter = [p \in Proc |-> "off"]
    /\ batch = [p \in Proc |-> 0]
    /\ ready = [p \in Proc |-> << >>]
    /\ task = [p \in Proc |-> [t \in TaskIds |-> "none"]]
    /\ engine = [p \in Proc |-> "new"]
    /\ server = [p \in Proc |-> "new"]
    /\ endpoint = 0
    /\ loads = [p \in Proc |-> 0]
    /\ loadFailed = [p \in Proc |-> FALSE]
    /\ stopping = [p \in Proc |-> FALSE]
    /\ callerPc = [p \in Proc |-> [c \in Callers |-> "idle"]]
    /\ stopFut = [p \in Proc |-> [c \in Callers |-> "none"]]
    /\ cbAdded = [p \in Proc |-> [c \in Callers |-> FALSE]]
    /\ stopCalls = [p \in Proc |-> 0]
    /\ fgQueue = [p \in Proc |-> << >>]
    /\ ack = [p \in Proc |-> FALSE]
    /\ emitted = [p \in Proc |-> << >>]
    /\ errorsEmitted = [p \in Proc |-> 0]

Init == ProcInit /\ WindowInit /\ NoDialog

\* -------------------------------------------- ControlManagerThread.run
\* line 519-520: self._loop = asyncio.new_event_loop()
run_new_loop(p) ==
    /\ tpc[p] = "L519"
    /\ loop' = [loop EXCEPT ![p] = "open"]
    /\ tpc' = [tpc EXCEPT ![p] = "L522"]
    /\ UNCHANGED <<mainVars, loopStopFlag, iter, batch, ready, task, engVars, stopVars, chanVars>>

\* run_until_complete(coro) / run_forever(): the coroutine becomes a task on
\* the loop, and the loop starts iterating.
EnterRun(p, from, to, t) ==
    /\ tpc[p] = from
    /\ tpc' = [tpc EXCEPT ![p] = to]
    /\ ready' = [ready EXCEPT ![p] = Append(@, t)]
    /\ task' = [task EXCEPT ![p][t] = "new"]
    /\ iter' = [iter EXCEPT ![p] = "select"]
    /\ UNCHANGED <<mainVars, loop, loopStopFlag, batch, engVars, stopVars, chanVars>>

\* line 522: self._loop.run_until_complete(self._control.start())
run_engine_start(p) == EnterRun(p, "L522", "run522", EngineStartT)

\* The Listener started where the engine should be: run_until_complete of
\* control_server.start() at line 522.
run_server_start_first(p) ==
    \/ EnterRun(p, "L522", "run523", ServerStartT)
    \/ EnterRun(p, "L523", "run523", ServerStartT)

\* line 523: self._loop.run_until_complete(self._control_server.start())
run_server_start(p) == EnterRun(p, "L523", "run523", ServerStartT)

\* The error_happened signal, queued for the foreground (line 528).
ErrorNote == [kind |-> "error_happened", paths |-> << >>, src |-> 0]

\* lines 525-528: try: self._control.load_state() / except Exception as err:
\* self.error_happened.emit(...).  The engine's load either returns or raises.
load_state_ok(p) ==
    /\ loads' = [loads EXCEPT ![p] = @ + 1]
    /\ UNCHANGED <<loadFailed, fgQueue, errorsEmitted>>

\* The except clause without its emit: the failure is swallowed silently.
load_state_raised_silent(p) ==
    /\ loads' = [loads EXCEPT ![p] = @ + 1]
    /\ loadFailed' = [loadFailed EXCEPT ![p] = TRUE]
    /\ UNCHANGED <<fgQueue, errorsEmitted>>

load_state_raised(p) ==
    /\ loads' = [loads EXCEPT ![p] = @ + 1]
    /\ loadFailed' = [loadFailed EXCEPT ![p] = TRUE]
    /\ fgQueue' = [fgQueue EXCEPT ![p] = Append(@, ErrorNote)]
    /\ errorsEmitted' = [errorsEmitted EXCEPT ![p] = @ + 1]

\* A load that is tried again: the thread stays at line 526 after the first
\* call.
run_load_state_again(p) ==
    /\ tpc[p] = "L526"
    /\ \/ load_state_ok(p)
       \/ load_state_raised(p)
    /\ tpc' = [tpc EXCEPT ![p] = IF loads[p] = 0 THEN "L526" ELSE "L529"]
    /\ UNCHANGED <<mainVars, loopVars, engine, server, endpoint, stopVars,
                   ack, emitted>>

run_load_state(p) ==
    /\ tpc[p] = "L526"
    /\ \/ load_state_ok(p)
       \/ load_state_raised(p)
    /\ tpc' = [tpc EXCEPT ![p] = "L529"]
    /\ UNCHANGED <<mainVars, loopVars, engine, server, endpoint, stopVars,
                   ack, emitted>>

\* line 529: self._control.invoke_state_dumps(): the periodic dump becomes a
\* task on the loop (asyncio.ensure_future).
run_invoke_state_dumps(p) ==
    /\ tpc[p] = "L529"
    /\ tpc' = [tpc EXCEPT ![p] = "L531"]
    /\ ready' = [ready EXCEPT ![p] = Append(@, DumperT)]
    /\ task' = [task EXCEPT ![p][DumperT] = "new"]
    /\ UNCHANGED <<mainVars, loop, loopStopFlag, iter, batch, engVars, stopVars, chanVars>>

\* line 531: self._loop.run_forever()
run_forever(p) ==
    /\ tpc[p] = "L531"
    /\ tpc' = [tpc EXCEPT ![p] = "run531"]
    /\ iter' = [iter EXCEPT ![p] = "select"]
    /\ UNCHANGED <<mainVars, loop, loopStopFlag, batch, ready, task, engVars, stopVars, chanVars>>

\* ------------------------------------------------- the asyncio loop
\* One iteration: select (timeout 0 when callbacks are ready or a stop was
\* requested, blocking otherwise), run the callbacks that are ready now, then
\* look at the stop request.
LoopSelect(p) ==
    /\ tpc[p] \in RunPhases
    /\ iter[p] = "select"
    /\ IF ready[p] # << >> \/ loopStopFlag[p]
       THEN /\ iter' = [iter EXCEPT ![p] = "run"]
            /\ batch' = [batch EXCEPT ![p] = Len(ready[p])]
       ELSE /\ iter' = [iter EXCEPT ![p] = "blocked"]
            /\ UNCHANGED batch
    /\ UNCHANGED <<mainVars, tpc, loop, loopStopFlag, ready, task, engVars, stopVars, chanVars>>

\* A blocked select returns when a callback arrives (an I/O event, a timer, or
\* call_soon_threadsafe's wake-up); a stop request alone does not wake it.
LoopWake(p) ==
    /\ tpc[p] \in RunPhases
    /\ iter[p] = "blocked"
    /\ ready[p] # << >>
    /\ iter' = [iter EXCEPT ![p] = "run"]
    /\ batch' = [batch EXCEPT ![p] = Len(ready[p])]
    /\ UNCHANGED <<mainVars, tpc, loop, loopStopFlag, ready, task, engVars, stopVars, chanVars>>

LoopNextIter(p) ==
    /\ tpc[p] \in RunPhases
    /\ iter[p] = "run"
    /\ batch[p] = 0
    /\ ~loopStopFlag[p]
    /\ iter' = [iter EXCEPT ![p] = "select"]
    /\ UNCHANGED <<mainVars, tpc, loop, loopStopFlag, batch, ready, task, engVars, stopVars, chanVars>>

\* Where run() goes when the loop stops iterating: run_until_complete returns
\* the finished future's result, raises its exception, or raises RuntimeError
\* when the loop was stopped before the future completed; an exception leaves
\* run() through "with closing(self._loop)"; run_forever returns.
AfterRun(p) ==
    CASE tpc[p] = "run522" -> IF task[p][EngineStartT] = "done" THEN "L523" ELSE "crashed"
      [] tpc[p] = "run523" -> IF task[p][ServerStartT] = "done" THEN "L526" ELSE "crashed"
      [] OTHER -> "exited"

LoopExit(p) ==
    /\ tpc[p] \in RunPhases
    /\ iter[p] = "run"
    /\ batch[p] = 0
    /\ loopStopFlag[p]
    /\ loopStopFlag' = [loopStopFlag EXCEPT ![p] = FALSE]
    /\ iter' = [iter EXCEPT ![p] = "off"]
    /\ tpc' = [tpc EXCEPT ![p] = AfterRun(p)]
    /\ loop' = [loop EXCEPT ![p] = IF AfterRun(p) \in {"crashed", "exited"} THEN "closed" ELSE @]
    /\ UNCHANGED <<mainVars, batch, ready, task, engVars, stopVars, chanVars>>

\* A suspended coroutine's I/O or timer completes: its task is ready again.
IoKinds == {"engine_start", "server_start", "dumper", "server_stop", "engine_stop"}

IoWake(p, t) ==
    /\ Kind(t) \in IoKinds
    /\ task[p][t] = "waiting"
    /\ loop[p] = "open"
    /\ task' = [task EXCEPT ![p][t] = "woken"]
    /\ ready' = [ready EXCEPT ![p] = Append(@, t)]
    /\ UNCHANGED <<mainVars, tpc, loop, loopStopFlag, iter, batch, engVars, stopVars, chanVars>>

\* ---------------------------------------------- tasks of the start phase
\* ControlManager.start(): awaitable; completes, suspends, or raises.
TaskEngineStart(p) ==
    /\ Running(p, "engine_start")
    /\ Popped(p)
    /\ \/ /\ engine' = [engine EXCEPT ![p] = "started"]
          /\ task' = [task EXCEPT ![p][EngineStartT] = "done"]
          /\ loopStopFlag' = [loopStopFlag EXCEPT ![p] = TRUE]
       \/ /\ engine' = [engine EXCEPT ![p] = IF @ = "new" THEN "starting" ELSE @]
          /\ task' = [task EXCEPT ![p][EngineStartT] = "waiting"]
          /\ UNCHANGED loopStopFlag
       \/ /\ task' = [task EXCEPT ![p][EngineStartT] = "raised"]
          /\ loopStopFlag' = [loopStopFlag EXCEPT ![p] = TRUE]
          /\ UNCHANGED engine
    /\ UNCHANGED <<mainVars, tpc, loop, iter, server, endpoint, loads, loadFailed, stopVars, chanVars>>

\* ControlServer.start(): binds the well-known endpoint; a bound endpoint
\* cannot be bound again.
TaskServerStart(p) ==
    /\ Running(p, "server_start")
    /\ Popped(p)
    /\ \/ /\ endpoint = 0
          /\ server' = [server EXCEPT ![p] = "listening"]
          /\ endpoint' = p
          /\ task' = [task EXCEPT ![p][ServerStartT] = "done"]
          /\ loopStopFlag' = [loopStopFlag EXCEPT ![p] = TRUE]
       \/ /\ endpoint # 0
          /\ task' = [task EXCEPT ![p][ServerStartT] = "raised"]
          /\ loopStopFlag' = [loopStopFlag EXCEPT ![p] = TRUE]
          /\ UNCHANGED <<server, endpoint>>
       \/ /\ task' = [task EXCEPT ![p][ServerStartT] = "waiting"]
          /\ UNCHANGED <<server, endpoint, loopStopFlag>>
    /\ UNCHANGED <<mainVars, tpc, loop, iter, engine, loads, loadFailed, stopVars, chanVars>>

\* The periodic state dump started by invoke_state_dumps: sleep, write, repeat,
\* until the engine's stop cancels it.
TaskDumper(p) ==
    /\ Running(p, "dumper")
    /\ Popped(p)
    /\ task' = [task EXCEPT ![p][DumperT] = IF @ = "cancelled" THEN "done" ELSE "waiting"]
    /\ UNCHANGED <<mainVars, tpc, loop, loopStopFlag, iter, engine, server, endpoint,
                   loads, loadFailed, stopVars, chanVars>>

\* ------------------------------------ ControlManagerThread.async_stop
\* line 534: await asyncio.gather(self._control_server.stop(), self._control.stop()).
\* gather makes one task of each coroutine, the Listener's first, and waits.
\* gather with its arguments swapped: the engine's stop first.
async_stop_engine_first(p) ==
    /\ Running(p, "async_stop")
    /\ LET c == Idx(Current(p)) IN
         /\ ready' = [ready EXCEPT ![p] =
                         Append(Append(Tail(@), EngineStopT(c)), ServerStopT(c))]
         /\ task' = [task EXCEPT ![p][AsyncStopT(c)] = "waiting",
                                 ![p][ServerStopT(c)] = "new",
                                 ![p][EngineStopT(c)] = "new"]
    /\ batch' = [batch EXCEPT ![p] = @ - 1]
    /\ UNCHANGED <<mainVars, tpc, loop, loopStopFlag, iter, engVars, stopVars, chanVars>>

async_stop(p) ==
    /\ Running(p, "async_stop")
    /\ LET c == Idx(Current(p)) IN
         /\ ready' = [ready EXCEPT ![p] =
                         Append(Append(Tail(@), ServerStopT(c)), EngineStopT(c))]
         /\ task' = [task EXCEPT ![p][AsyncStopT(c)] = "waiting",
                                 ![p][ServerStopT(c)] = "new",
                                 ![p][EngineStopT(c)] = "new"]
    /\ batch' = [batch EXCEPT ![p] = @ - 1]
    /\ UNCHANGED <<mainVars, tpc, loop, loopStopFlag, iter, engVars, stopVars, chanVars>>

\* gather's result: it finishes when both tasks are done, or as soon as one
\* raises.  Then async_stop returns, stop_fut is done, and its done-callback
\* (line 542, when already added) calls loop.stop() in the loop thread.
GatherFinishes(p, c, t, r) ==
    LET other == IF Kind(t) = "server_stop" THEN EngineStopT(c) ELSE ServerStopT(c) IN
    /\ task[p][AsyncStopT(c)] = "waiting"
    /\ r = "raised" \/ task[p][other] = "done"

SubTaskEnds(p, c, t, r, base) ==
    /\ task' = [base EXCEPT ![p][t] = r,
                            ![p][AsyncStopT(c)] = IF GatherFinishes(p, c, t, r) THEN r ELSE @]
    /\ stopFut' = [stopFut EXCEPT ![p][c] = IF GatherFinishes(p, c, t, r) THEN "done" ELSE @]
    /\ loopStopFlag' = [loopStopFlag EXCEPT ![p] =
                           @ \/ (GatherFinishes(p, c, t, r) /\ cbAdded[p][c])]

\* ControlServer.stop(): closes a listening Listener (the endpoint is free
\* again), then waits for the close to complete.
TaskServerStop(p) ==
    /\ Running(p, "server_stop")
    /\ Popped(p)
    /\ LET c == Idx(Current(p))
           t == Current(p)
           closes == task[p][t] = "new" /\ server[p] = "listening" IN
         /\ server' = [server EXCEPT ![p] = IF closes THEN "closed" ELSE @]
         /\ endpoint' = IF closes /\ endpoint = p THEN 0 ELSE endpoint
         /\ \/ SubTaskEnds(p, c, t, "done", task)
            \/ /\ task' = [task EXCEPT ![p][t] = "waiting"]
               /\ UNCHANGED <<stopFut, loopStopFlag>>
    /\ UNCHANGED <<mainVars, tpc, loop, iter, engine, loads, loadFailed,
                   stopping, callerPc, cbAdded, stopCalls, chanVars>>

\* ControlManager.stop(): cancels the engine's outstanding work (the periodic
\* dump among it); completes, suspends, or raises.
CancelDumper(st) ==
    CASE st \in {"new", "woken"} -> "cancelled"
      [] st = "waiting" -> "done"
      [] OTHER -> st

TaskEngineStop(p) ==
    /\ Running(p, "engine_stop")
    /\ Popped(p)
    /\ LET c == Idx(Current(p))
           t == Current(p)
           first == task[p][t] = "new"
           cancelled == [task EXCEPT ![p][DumperT] = IF first THEN CancelDumper(@) ELSE @] IN
         \/ /\ engine' = [engine EXCEPT ![p] = "stopped"]
            /\ SubTaskEnds(p, c, t, "done", cancelled)
         \/ /\ engine' = [engine EXCEPT ![p] = "stopping"]
            /\ task' = [cancelled EXCEPT ![p][t] = "waiting"]
            /\ UNCHANGED <<stopFut, loopStopFlag>>
         \/ /\ engine' = [engine EXCEPT ![p] = "stopping"]
            /\ SubTaskEnds(p, c, t, "raised", cancelled)
    /\ UNCHANGED <<mainVars, tpc, loop, iter, server, endpoint, loads, loadFailed, stopping, callerPc, cbAdded, stopCalls, chanVars>>

\* ------------------------------------------ ControlManagerThread.stop
Dead == {"exited", "crashed", "aborted", "killed"}
Alive(p) == mainPc[p] \notin Dead

\* A caller enters stop(): the foreground through lastWindowClosed (line 573)
\* while it runs app.exec_(); any other thread once the thread was started.
StopEnter(p, c) ==
    /\ Alive(p)
    /\ tpc[p] # "unstarted"
    /\ c = 1 => mainPc[p] = "exec"
    /\ callerPc[p][c] = "idle"
    /\ stopCalls[p] < MaxStopCalls
    /\ callerPc' = [callerPc EXCEPT ![p][c] = "L537"]
    /\ stopCalls' = [stopCalls EXCEPT ![p] = @ + 1]
    /\ UNCHANGED <<mainVars, tpc, loopVars, engVars, stopping, stopFut, cbAdded,
                   chanVars>>

\* lines 537-538: if self._stopping: return
stop_check(p, c) ==
    /\ callerPc[p][c] = "L537"
    /\ callerPc' = [callerPc EXCEPT ![p][c] = IF stopping[p] THEN "returned" ELSE "L539"]
    /\ UNCHANGED <<mainVars, tpc, loopVars, engVars, stopping, stopFut, cbAdded, stopCalls, chanVars>>

\* line 539: self._stopping = True
stop_set(p, c) ==
    /\ callerPc[p][c] = "L539"
    /\ stopping' = [stopping EXCEPT ![p] = TRUE]
    /\ callerPc' = [callerPc EXCEPT ![p][c] = "L541"]
    /\ UNCHANGED <<mainVars, tpc, loopVars, engVars, stopFut, cbAdded, stopCalls,
                   chanVars>>

\* line 541: asyncio.run_coroutine_threadsafe(self.async_stop(), self._loop).
\* With self._loop still None, or closed, call_soon_threadsafe raises.
stop_schedule(p, c) ==
    /\ callerPc[p][c] = "L541"
    /\ IF loop[p] = "open"
       THEN /\ ready' = [ready EXCEPT ![p] = Append(@, AsyncStopT(c))]
            /\ task' = [task EXCEPT ![p][AsyncStopT(c)] = "new"]
            /\ stopFut' = [stopFut EXCEPT ![p][c] = "pending"]
            /\ callerPc' = [callerPc EXCEPT ![p][c] = "L542"]
       ELSE /\ callerPc' = [callerPc EXCEPT ![p][c] = "raised"]
            /\ UNCHANGED <<ready, task, stopFut>>
    /\ UNCHANGED <<mainVars, tpc, loop, loopStopFlag, iter, batch, engVars, stopping, cbAdded,
                   stopCalls, chanVars>>

\* line 542: stop_fut.add_done_callback(lambda fut: self._loop.stop()).  On a
\* future that is already done the callback runs at once, in the caller's
\* thread.
stop_add_done_callback(p, c) ==
    /\ callerPc[p][c] = "L542"
    /\ cbAdded' = [cbAdded EXCEPT ![p][c] = TRUE]
    /\ loopStopFlag' = [loopStopFlag EXCEPT ![p] = @ \/ stopFut[p][c] = "done"]
    /\ callerPc' = [callerPc EXCEPT ![p][c] = "L543"]
    /\ UNCHANGED <<mainVars, tpc, loop, iter, batch, ready, task, engVars, stopping, stopFut,
                   stopCalls, chanVars>>

\* line 543: self.wait() returns once the thread has finished.
stop_wait(p, c) ==
    /\ callerPc[p][c] = "L543"
    /\ ThreadEnded(p)
    /\ callerPc' = [callerPc EXCEPT ![p][c] = "returned"]
    /\ UNCHANGED <<mainVars, tpc, loopVars, engVars, stopping, stopFut, cbAdded, stopCalls, chanVars>>

\* A caller whose stop() returned may call it again.
StopAgain(p, c) ==
    /\ Alive(p)
    /\ callerPc[p][c] = "returned"
    /\ stopCalls[p] < MaxStopCalls
    /\ callerPc' = [callerPc EXCEPT ![p][c] = "idle"]
    /\ UNCHANGED <<mainVars, tpc, loopVars, engVars, stopping, stopFut, cbAdded, stopCalls, chanVars>>

\* ------------------------------------------------------------- main()
\* The process ends ("exited": sys.exit(0); "crashed": an exception left
\* main(); "aborted": an unhandled exception in a thread or slot; "killed"):
\* its threads and its loop are gone, so none of their steps is enabled any
\* more, and the system frees the endpoint it held.  What it sent stays with
\* the receiver.
Ends(p, how) ==
    /\ mainPc' = [mainPc EXCEPT ![p] = how]
    /\ endpoint' = IF endpoint = p THEN 0 ELSE endpoint
    /\ windowShown' = [windowShown EXCEPT ![p] = FALSE]
    /\ probeTo' = [probeTo EXCEPT ![p] = 0]
    /\ probeResult' = [probeResult EXCEPT ![p] = "none"]
    /\ tpc' = [tpc EXCEPT ![p] = "unstarted"]
    /\ loop' = [loop EXCEPT ![p] = "None"]
    /\ loopStopFlag' = [loopStopFlag EXCEPT ![p] = FALSE]
    /\ iter' = [iter EXCEPT ![p] = "off"]
    /\ batch' = [batch EXCEPT ![p] = 0]
    /\ ready' = [ready EXCEPT ![p] = << >>]
    /\ task' = [task EXCEPT ![p] = [t \in TaskIds |-> "none"]]
    /\ engine' = [engine EXCEPT ![p] = "new"]
    /\ server' = [server EXCEPT ![p] = "new"]
    /\ loads' = [loads EXCEPT ![p] = 0]
    /\ loadFailed' = [loadFailed EXCEPT ![p] = FALSE]
    /\ stopping' = [stopping EXCEPT ![p] = FALSE]
    /\ callerPc' = [callerPc EXCEPT ![p] = [c \in Callers |-> "idle"]]
    /\ stopFut' = [stopFut EXCEPT ![p] = [c \in Callers |-> "none"]]
    /\ cbAdded' = [cbAdded EXCEPT ![p] = [c \in Callers |-> FALSE]]
    /\ stopCalls' = [stopCalls EXCEPT ![p] = 0]
    /\ fgQueue' = [fgQueue EXCEPT ![p] = << >>]
    /\ ack' = [ack EXCEPT ![p] = FALSE]
    /\ errorsEmitted' = [errorsEmitted EXCEPT ![p] = 0]
    /\ UNCHANGED <<filenames, guiVars, emitted>>

\* lines 566-575: the window is built and shown (MainWindow.__init__ ends with
\* self.show()), the loop thread is started, lastWindowClosed is connected to
\* stop; then "if args.filenames:" decides whether to probe.
main_start(p) ==
    /\ mainPc[p] = "init"
    /\ windowShown' = [windowShown EXCEPT ![p] = TRUE]
    /\ tpc' = [tpc EXCEPT ![p] = "L519"]
    /\ mainPc' = [mainPc EXCEPT ![p] = IF filenames[p] # << >> THEN "probe" ELSE "exec"]
    /\ UNCHANGED <<filenames, guiVars, probeTo, probeResult, loopVars, engVars, stopVars, chanVars>>

\* The emission with the paths in reverse order.
suggest_torrents_reversed(fs) ==
    [kind |-> "torrents_suggested", paths |-> [i \in 1..Len(fs) |-> fs[Len(fs) + 1 - i]]]

\* line 546: manager.torrents_suggested.emit(filenames)
suggest_torrents(fs) == [kind |-> "torrents_suggested", paths |-> fs]

\* lines 554-555: except RuntimeError: return False; any other exception
\* leaves find_another_daemon.
ProbeFailure(exc) == IF exc = "RuntimeError" THEN "False" ELSE "raised"

\* line 576: asyncio.run(find_another_daemon(...)): the value is dropped and
\* main() goes on to line 578.
AfterProbe(result) == "exec"

\* line 550: async with ControlClient() as client.  The connection is made to
\* the Listener bound to the endpoint; with none bound the Client raises
\* RuntimeError.  lines 551-552: a non-empty filenames is sent to the Listener,
\* whose handler becomes ready on the host's loop.
find_another_daemon_connect(p) ==
    /\ mainPc[p] = "probe"
    /\ IF endpoint # 0
       THEN /\ probeTo' = [probeTo EXCEPT ![p] = endpoint]
            /\ IF filenames[p] # << >>
               THEN /\ mainPc' = [mainPc EXCEPT ![p] = "await_ack"]
                    /\ ready' = [ready EXCEPT ![endpoint] = Append(@, ConnT(p))]
                    /\ task' = [task EXCEPT ![endpoint][ConnT(p)] = "new"]
                    /\ UNCHANGED probeResult
               ELSE /\ probeResult' = [probeResult EXCEPT ![p] = "True"]
                    /\ mainPc' = [mainPc EXCEPT ![p] = AfterProbe("True")]
                    /\ UNCHANGED <<ready, task>>
       ELSE /\ probeResult' = [probeResult EXCEPT ![p] = ProbeFailure("RuntimeError")]
            /\ mainPc' = [mainPc EXCEPT ![p] = AfterProbe(ProbeFailure("RuntimeError"))]
            /\ UNCHANGED <<probeTo, ready, task>>
    /\ UNCHANGED <<filenames, guiVars, windowShown, tpc, loop, loopStopFlag, iter, batch, engVars,
                   stopVars, chanVars>>

\* The Listener's handler on the host's loop: runs the received action,
\* suggest_torrents(manager, filenames), and acknowledges.
TaskConn(p) ==
    /\ Running(p, "conn")
    /\ Popped(p)
    /\ LET c == Idx(Current(p))
           note == suggest_torrents(filenames[c]) IN
         /\ fgQueue' = [fgQueue EXCEPT ![p] =
                           Append(@, [kind |-> note.kind, paths |-> note.paths, src |-> c])]
         /\ emitted' = [emitted EXCEPT ![c] = Append(@, [host |-> p, paths |-> note.paths])]
         /\ ack' = [ack EXCEPT ![c] = Alive(c)]
         /\ task' = [task EXCEPT ![p][ConnT(c)] = "done"]
    /\ UNCHANGED <<mainVars, tpc, loop, loopStopFlag, iter, engVars, stopVars, errorsEmitted>>

\* line 552 returns with the acknowledgment, line 553: return True.
find_another_daemon_ack(p) ==
    /\ mainPc[p] = "await_ack"
    /\ ack[p]
    /\ probeResult' = [probeResult EXCEPT ![p] = "True"]
    /\ mainPc' = [mainPc EXCEPT ![p] = AfterProbe("True")]
    /\ UNCHANGED <<filenames, guiVars, windowShown, probeTo, tpc, loopVars, engVars, stopVars, chanVars>>

\* The host process ended before it acknowledged: the connection is reset and
\* line 552 raises a connection error, which is no RuntimeError.  An exception
\* that leaves find_another_daemon leaves asyncio.run and main().
find_another_daemon_reset(p) ==
    /\ mainPc[p] = "await_ack"
    /\ ~ack[p]
    /\ probeTo[p] # p
    /\ ~Alive(probeTo[p])
    /\ IF ProbeFailure("ConnectionError") = "raised"
       THEN Ends(p, "crashed")
       ELSE /\ probeResult' = [probeResult EXCEPT ![p] = ProbeFailure("ConnectionError")]
            /\ mainPc' = [mainPc EXCEPT ![p] = AfterProbe(ProbeFailure("ConnectionError"))]
            /\ UNCHANGED <<filenames, guiVars, windowShown, probeTo, tpc, loopVars, engVars, stopVars,
                           chanVars>>

\* The foreground, inside app.exec_(), takes the next queued notification
\* (the slots connected at lines 360-361).
FgDrain(p) ==
    /\ mainPc[p] = "exec"
    /\ callerPc[p][1] = "idle"
    /\ fgQueue[p] # << >>
    /\ fgQueue' = [fgQueue EXCEPT ![p] = Tail(@)]
    /\ UNCHANGED <<mainVars, tpc, loopVars, engVars, stopVars, ack, emitted, errorsEmitted>>

\* line 578: sys.exit(app.exec_()): the application quits once the
\* lastWindowClosed slot, stop(), has returned.
main_exit(p) ==
    /\ mainPc[p] = "exec"
    /\ callerPc[p][1] = "returned"
    /\ Ends(p, "exited")

\* An exception that leaves run() is unhandled: the process may be aborted.
ThreadAbort(p) ==
    /\ Alive(p)
    /\ tpc[p] = "crashed"
    /\ Ends(p, "aborted")

\* An exception that leaves the stop() slot is unhandled as well.
SlotAbort(p) ==
    /\ Alive(p)
    /\ callerPc[p][1] = "raised"
    /\ Ends(p, "aborted")

\* The process that holds the endpoint is killed from outside.
ProcKill(p) ==
    /\ Alive(p)
    /\ endpoint = p
    /\ Ends(p, "killed")

\* --------------------------------------------------------- specifications
StartNext(p) ==
    \/ run_new_loop(p)
    \/ run_engine_start(p)
    \/ run_server_start(p)
    \/ run_load_state(p)
    \/ run_invoke_state_dumps(p)
    \/ run_forever(p)
    \/ LoopSelect(p)
    \/ LoopWake(p)
    \/ LoopNextIter(p)
    \/ LoopExit(p)
    \/ TaskEngineStart(p)
    \/ TaskServerStart(p)
    \/ TaskDumper(p)
    \/ \E t \in TaskIds : IoWake(p, t)

StopTasksNext(p) ==
    \/ async_stop(p)
    \/ TaskServerStop(p)
    \/ TaskEngineStop(p)

StopNext(p, c) ==
    \/ StopEnter(p, c)
    \/ stop_check(p, c)
    \/ stop_set(p, c)
    \/ stop_schedule(p, c)
    \/ stop_add_done_callback(p, c)
    \/ stop_wait(p, c)
    \/ StopAgain(p, c)

\* The processes of one host from their start through the hand-off of their
\* work items, while the windows stay open.
Next ==
    \E p \in Proc :
        \/ main_start(p)
        \/ find_another_daemon_connect(p)
        \/ find_another_daemon_ack(p)
        \/ find_another_daemon_reset(p)
        \/ FgDrain(p)
        \/ ThreadAbort(p)
        \/ ProcKill(p)
        \/ StartNext(p)
        \/ TaskConn(p)

Spec == Init /\ [][Next]_vars

\* One process, started without work items, from start to exit: its
\* ControlManagerThread, and stop() called by the foreground and by other
\* threads, each possibly more than once.
InitLife == Init /\ \A p \in Proc : filenames[p] = << >>

NextLife ==
    \/ main_start(1)
    \/ FgDrain(1)
    \/ main_exit(1)
    \/ ThreadAbort(1)
    \/ SlotAbort(1)
    \/ StartNext(1)
    \/ StopTasksNext(1)
    \/ \E c \in Callers : StopNext(1, c)

SpecLife == InitLife /\ [][NextLife]_vars

\* ------------------------------------------------- MainWindow: the list
procVars == <<filenames, mainPc, windowShown, probeTo, probeResult, tpc, loopVars, engVars,
              stopVars, chanVars>>

\* The name of a torrent is part of the data its info hash is computed from:
\* equal hashes have equal names, different hashes may share a name.
SuggestedName(t) == (t + 1) \div 2
TorrentState(t, paused) == [info_hash |-> t, suggested_name |-> SuggestedName(t), paused |-> paused]
TorrentStates == {TorrentState(t, b) : t \in TorrentIds, b \in BOOLEAN}

\* A QListWidgetItem is an object: the key stands for its identity.
FreshKey(its) == CHOOSE k \in 1..(Len(its) + 1) :
                    /\ \A i \in 1..Len(its) : its[i].key # k
                    /\ \A j \in 1..(k - 1) : \E i \in 1..Len(its) : its[i].key = j
RowOfKey(its, k) == CHOOSE i \in 1..Len(its) : its[i].key = k
InsertAt(seq, pos, e) == SubSeq(seq, 1, pos) \o <<e>> \o SubSeq(seq, pos + 1, Len(seq))
TakeAt(seq, i) == SubSeq(seq, 1, i - 1) \o SubSeq(seq, i + 1, Len(seq))

\* The scan of lines 405-410 stopping at the first row whose name is not
\* smaller than the new one.
ItemsUpper_before(its, name, i) ==
    Cardinality({j \in 1..Len(its) : its[j].state.suggested_name < name})

\* The scan of lines 405-410 passing every row: the new row goes to the end.
ItemsUpper_end(its, name, i) == Len(its)

\* lines 405-410: the rows are scanned from the top; the scan stops at the
\* first row whose name is greater than the new one (rows are numbered from 1
\* here, i is the row looked at, the result the number of rows passed).
RECURSIVE ItemsUpper(_, _, _)
ItemsUpper(its, name, i) ==
    IF i > Len(its) THEN Len(its)
    ELSE IF its[i].state.suggested_name > name THEN i - 1
    ELSE ItemsUpper(its, name, i + 1)

\* lines 434-447
update_control_action_state(its, sel) ==
    LET ready_rows == {i \in 1..Len(its) : its[i].key \in sel /\ ~its[i].waiting} IN
    [pause |-> \E i \in ready_rows : ~its[i].state.paused,
     resume |-> \E i \in ready_rows : its[i].state.paused,
     remove |-> ready_rows # {}]

\* lines 396-414
add_torrent_item(state) ==
    LET item == [key |-> FreshKey(items), state |-> state, waiting |-> FALSE] IN
    /\ items' = InsertAt(items, ItemsUpper(items, state.suggested_name, 1), item)
    /\ torrent_to_item' = [torrent_to_item EXCEPT ![state.info_hash] = item.key]
    /\ slotOutcome' = "ok"
    /\ UNCHANGED <<selected, actionEnabled>>

\* The slot clearing the flag on every update, whatever its paused says.
update_torrent_item_clears(state) ==
    IF torrent_to_item[state.info_hash] = 0
    THEN /\ slotOutcome' = "ok"
         /\ UNCHANGED <<items, torrent_to_item, selected, actionEnabled>>
    ELSE LET r == RowOfKey(items, torrent_to_item[state.info_hash])
             its == [items EXCEPT ![r] =
                        [key |-> items[r].key, state |-> state, waiting |-> FALSE]] IN
         /\ items' = its
         /\ actionEnabled' = update_control_action_state(its, selected)
         /\ slotOutcome' = "ok"
         /\ UNCHANGED <<torrent_to_item, selected>>

\* lines 416-425
update_torrent_item(state) ==
    IF torrent_to_item[state.info_hash] = 0
    THEN /\ slotOutcome' = "ok"
         /\ UNCHANGED <<items, torrent_to_item, selected, actionEnabled>>
    ELSE LET r == RowOfKey(items, torrent_to_item[state.info_hash])
             widget == items[r]
             its == [items EXCEPT ![r] =
                        [key |-> widget.key,
                         state |-> state,
                         waiting |-> IF widget.state.paused # state.paused
                                     THEN FALSE ELSE widget.waiting]] IN
         /\ items' = its
         /\ actionEnabled' = update_control_action_state(its, selected)
         /\ slotOutcome' = "ok"
         /\ UNCHANGED <<torrent_to_item, selected>>

\* lines 427-432: self._torrent_to_item[info_hash] raises KeyError for a hash
\* that has no entry, before anything is changed.
remove_torrent_item(info_hash) ==
    IF torrent_to_item[info_hash] = 0
    THEN /\ slotOutcome' = "KeyError"
         /\ UNCHANGED <<items, torrent_to_item, selected, actionEnabled>>
    ELSE LET k == torrent_to_item[info_hash]
             its == TakeAt(items, RowOfKey(items, k)) IN
         /\ items' = its
         /\ torrent_to_item' = [torrent_to_item EXCEPT ![info_hash] = 0]
         /\ selected' = selected \ {k}
         /\ actionEnabled' = update_control_action_state(its, selected \ {k})
         /\ slotOutcome' = "ok"

\* The slots of the list called one after another with any arguments.
CallAdd ==
    /\ Len(items) < MaxItems
    /\ \E st \in TorrentStates :
         /\ add_torrent_item(st)
         /\ lastCall' = [op |-> "add", arg |-> st.info_hash]
    /\ UNCHANGED <<procVars, dialogVars, actVars>>

CallUpdate ==
    /\ \E st \in TorrentStates :
         /\ update_torrent_item(st)
         /\ lastCall' = [op |-> "update", arg |-> st.info_hash]
    /\ UNCHANGED <<procVars, dialogVars, actVars>>

CallRemove ==
    /\ \E t \in TorrentIds :
         /\ remove_torrent_item(t)
         /\ lastCall' = [op |-> "remove", arg |-> t]
    /\ UNCHANGED <<procVars, dialogVars, actVars>>

NextList == CallAdd \/ CallUpdate \/ CallRemove

SpecList == InitLife /\ [][NextList]_vars

\* States whose suggested_name differs from the one the torrent was inserted
\* with: _update_torrent_item takes whatever state it is handed (line 423).
Names == 1..(SuggestedName(NumTorrents) + 1)
RenamedStates ==
    {st \in [info_hash : TorrentIds, suggested_name : Names, paused : BOOLEAN] :
        st.suggested_name # SuggestedName(st.info_hash)}

CallUpdateRenamed ==
    /\ \E st \in RenamedStates :
         /\ update_torrent_item(st)
         /\ lastCall' = [op |-> "update", arg |-> st.info_hash]
    /\ UNCHANGED <<procVars, dialogVars, actVars>>

NextRename == CallAdd \/ CallUpdate \/ CallUpdateRenamed \/ CallRemove

SpecRename == InitLife /\ [][NextRename]_vars

\* ---------------------------------------- MainWindow: toolbar actions
\* The selected rows that are not waiting, from the top of the list.
SelectedRows(its, sel) ==
    SelectSeq([i \in 1..Len(its) |-> i], LAMBDA i : its[i].key \in sel /\ ~its[i].waiting)

\* The handler without line 489: the rows are not marked waiting.
control_action_triggered_unmarked(action) ==
    LET rows == SelectedRows(items, selected) IN
    /\ actionEnabled[action]
    /\ submits + Len(rows) <= MaxSubmits
    /\ actQueue' = actQueue \o [j \in 1..Len(rows) |->
                                   [n |-> submits + j, kind |-> action,
                                    target |-> items[rows[j]].state.info_hash]]
    /\ submits' = submits + Len(rows)
    /\ slotOutcome' = "ok"
    /\ UNCHANGED <<procVars, lastCall, dialogVars, items, torrent_to_item, selected, actionEnabled, torrents,
                   actSuspended, sigQueue, adds, done, otherFailures, sinceSwallow>>

\* lines 480-491: for every selected row that is not waiting, the coroutine
\* _invoke_control_action(action, info_hash) is handed to the loop (line 487)
\* and the row is marked waiting (line 489); then the actions' enabled flags
\* are recomputed (line 491).  The action can be triggered while it is enabled.
control_action_triggered(action) ==
    LET rows == SelectedRows(items, selected)
        its == [i \in 1..Len(items) |->
                   IF \E j \in 1..Len(rows) : rows[j] = i
                   THEN [key |-> items[i].key, state |-> items[i].state, waiting |-> TRUE]
                   ELSE items[i]] IN
    /\ actionEnabled[action]
    /\ submits + Len(rows) <= MaxSubmits
    /\ actQueue' = actQueue \o [j \in 1..Len(rows) |->
                                   [n |-> submits + j, kind |-> action,
                                    target |-> items[rows[j]].state.info_hash]]
    /\ items' = its
    /\ submits' = submits + Len(rows)
    /\ actionEnabled' = update_control_action_state(its, selected)
    /\ slotOutcome' = "ok"
    /\ UNCHANGED <<procVars, lastCall, dialogVars, torrent_to_item, selected, torrents, actSuspended, sigQueue, adds,
                   done, otherFailures, sinceSwallow>>

\* itemSelectionChanged (line 351): the user selects another set of rows.
SelectionChanged ==
    /\ \E sel \in SUBSET {items[i].key : i \in 1..Len(items)} :
         /\ sel # selected
         /\ selected' = sel
         /\ actionEnabled' = update_control_action_state(items, sel)
    /\ UNCHANGED <<procVars, lastCall, dialogVars, items, torrent_to_item, slotOutcome, actVars>>

\* lines 452-465 and 193-205: add_torrent_files refuses a torrent that has an
\* entry in self._torrent_to_item; otherwise the dialog is shown and
\* submit_torrent hands control.add to the loop with call_soon_threadsafe.
add_torrent_files(t) ==
    /\ torrent_to_item[t] = 0
    /\ adds < MaxAdds
    /\ adds' = adds + 1
    /\ actQueue' = Append(actQueue, [n |-> 0, kind |-> "add", target |-> t])
    /\ UNCHANGED <<procVars, lastCall, dialogVars, listVars, torrents, actSuspended, sigQueue, submits, done,
                   otherFailures, sinceSwallow>>

\* -------------------------------------- the loop: actions on the engine
Emit(q, kind, t, paused) == Append(q, [kind |-> kind, state |-> TorrentState(t, paused)])
QueuedUpdates(q, t) ==
    Cardinality({i \in 1..Len(q) : q[i].kind = "torrent_changed" /\ q[i].state.info_hash = t})

\* _invoke_control_action has returned or raised: the action is processed.
Completed(e) == done' = [done EXCEPT ![e.target] = Append(@, e.n)]

\* lines 477-478: except ValueError: pass
Swallowed(e) ==
    /\ Completed(e)
    /\ sinceSwallow' = [sinceSwallow EXCEPT ![e.target] = QueuedUpdates(sigQueue, e.target)]
    /\ UNCHANGED <<torrents, actSuspended, sigQueue, otherFailures>>

\* Another exception leaves _invoke_control_action: it is stored in the future
\* that run_coroutine_threadsafe returned at line 487, which nobody holds.
FailedOtherwise(e) ==
    /\ Completed(e)
    /\ otherFailures' = otherFailures + 1
    /\ UNCHANGED <<torrents, sigQueue, sinceSwallow>>

\* control.add run by the loop: the engine refuses a torrent it already has,
\* otherwise it takes it (running) and emits torrent_added.
EngineAdd(e) ==
    /\ IF torrents[e.target] # "absent"
       THEN UNCHANGED <<torrents, sigQueue>>
       ELSE /\ torrents' = [torrents EXCEPT ![e.target] = "running"]
            /\ sigQueue' = Emit(sigQueue, "torrent_added", e.target, FALSE)
    /\ UNCHANGED <<actSuspended, done, otherFailures, sinceSwallow>>

\* First step of _invoke_control_action (lines 472-476): action(info_hash).
\* pause and remove are coroutines that await the torrent's manager, resume is
\* a plain call.  An action that does not apply raises ValueError.
EnginePause(e) ==
    IF torrents[e.target] = "running"
    THEN \/ /\ actSuspended' = actSuspended \cup {e}
            /\ UNCHANGED <<torrents, sigQueue, done, otherFailures, sinceSwallow>>
         \/ FailedOtherwise(e) /\ UNCHANGED actSuspended
    ELSE Swallowed(e)

EngineResume(e) ==
    IF torrents[e.target] = "paused"
    THEN \/ /\ torrents' = [torrents EXCEPT ![e.target] = "running"]
            /\ sigQueue' = Emit(sigQueue, "torrent_changed", e.target, FALSE)
            /\ Completed(e)
            /\ UNCHANGED <<actSuspended, otherFailures, sinceSwallow>>
         \/ FailedOtherwise(e) /\ UNCHANGED actSuspended
    ELSE Swallowed(e)

EngineRemove(e) ==
    IF torrents[e.target] # "absent"
    THEN \/ /\ torrents' = [torrents EXCEPT ![e.target] = "absent"]
            /\ actSuspended' = actSuspended \cup {e}
            /\ UNCHANGED <<sigQueue, done, otherFailures, sinceSwallow>>
         \/ FailedOtherwise(e) /\ UNCHANGED actSuspended
    ELSE Swallowed(e)

\* The loop runs the callback at the head of its queue.
ActFirstStep ==
    /\ actQueue # << >>
    /\ LET e == Head(actQueue) IN
         CASE e.kind = "add" -> EngineAdd(e)
           [] e.kind = "pause" -> EnginePause(e)
           [] e.kind = "resume" -> EngineResume(e)
           [] e.kind = "remove" -> EngineRemove(e)
    /\ actQueue' = Tail(actQueue)
    /\ UNCHANGED <<procVars, lastCall, dialogVars, listVars, submits, adds>>

\* The awaited manager has stopped: the suspended coroutine goes on to its
\* end, changes the torrent and emits the notification, or fails.
ActWake ==
    /\ \E e \in actSuspended :
         /\ actSuspended' = actSuspended \ {e}
         /\ \/ /\ e.kind = "pause"
               /\ torrents' = [torrents EXCEPT ![e.target] = "paused"]
               /\ sigQueue' = Emit(sigQueue, "torrent_changed", e.target, TRUE)
               /\ Completed(e)
               /\ UNCHANGED <<otherFailures, sinceSwallow>>
            \/ /\ e.kind = "remove"
               /\ sigQueue' = Append(sigQueue, [kind |-> "torrent_removed",
                                                state |-> TorrentState(e.target, FALSE)])
               /\ Completed(e)
               /\ UNCHANGED <<torrents, otherFailures, sinceSwallow>>
            \/ FailedOtherwise(e)
    /\ UNCHANGED <<procVars, lastCall, dialogVars, listVars, actQueue, submits, adds>>

\* The engine reports the state of a torrent it holds (torrent_changed).
EngineUpdate ==
    /\ Len(sigQueue) < MaxSignals
    /\ \E t \in TorrentIds :
         /\ torrents[t] # "absent"
         /\ sigQueue' = Emit(sigQueue, "torrent_changed", t, torrents[t] = "paused")
    /\ UNCHANGED <<procVars, lastCall, dialogVars, listVars, torrents, actQueue, actSuspended, submits, adds, done,
                   otherFailures, sinceSwallow>>

\* lines 362-364: the foreground runs the slot connected to the signal at the
\* head of the queue.
ForegroundSlot ==
    /\ sigQueue # << >>
    /\ LET sig == Head(sigQueue)
           t == sig.state.info_hash IN
         /\ CASE sig.kind = "torrent_added" -> add_torrent_item(sig.state)
              [] sig.kind = "torrent_changed" -> update_torrent_item(sig.state)
              [] sig.kind = "torrent_removed" -> remove_torrent_item(t)
         /\ sinceSwallow' =
               IF sig.kind = "torrent_changed" /\ sinceSwallow[t] >= 0
               THEN [sinceSwallow EXCEPT ![t] = IF @ = 0 THEN -2 ELSE @ - 1]
               ELSE sinceSwallow
    /\ sigQueue' = Tail(sigQueue)
    /\ UNCHANGED <<procVars, lastCall, dialogVars, torrents, actQueue, actSuspended, submits, adds, done,
                   otherFailures>>

\* The main window of the hosting process while its loop is in run_forever.
NextAct ==
    \/ \E t \in TorrentIds : add_torrent_files(t)
    \/ SelectionChanged
    \/ \E a \in ActionKinds : control_action_triggered(a)
    \/ ActFirstStep
    \/ ActWake
    \/ EngineUpdate
    \/ ForegroundSlot

SpecAct == InitLife /\ [][NextAct]_vars

\* -------------------------------------------------- TorrentAddingDialog
\* The file trees of a torrent: node 1 is the top item, every other node has
\* an earlier node as its parent; a node without children is a file.
TreeShapes ==
    UNION {{[i \in 1..n |-> IF i = 1 THEN 0 ELSE f[i]] :
               f \in {g \in [2..n -> 1..n] : \A i \in 2..n : g[i] < i}} : n \in 1..MaxNodes}
\* node.length of a file (files of length 0 exist)
FileLength(n) == n % 3

Nodes(tree) == DOMAIN tree
ChildSeq(tree, item) == SelectSeq([i \in 1..Len(tree) |-> i], LAMBDA m : tree[m] = item)
IsFile(tree, n) == ChildSeq(tree, n) = << >>
\* lines 44-56: self._file_items, the files in the order the tree is traversed
\* (a parent before its children, which is the order of the node numbers).
FileItems(tree) == SelectSeq([i \in 1..Len(tree) |-> i], LAMBDA m : IsFile(tree, m))

RECURSIVE SetChildren(_, _, _, _)
RECURSIVE set_check_state_to_tree(_, _, _, _)
\* lines 137-140: the body of the for loop, child by child
SetChildren(tree, cs, kids, check_state) ==
    IF kids = << >> THEN cs
    ELSE LET child == Head(kids)
             set == [cs EXCEPT ![child] = check_state] IN
         SetChildren(tree, set_check_state_to_tree(tree, set, child, check_state),
                     Tail(kids), check_state)

\* The loop of lines 137-139 without the recursive call of line 140.
set_check_state_to_tree_flat(tree, cs, item, check_state) ==
    [m \in Nodes(tree) |-> IF tree[m] = item THEN check_state ELSE cs[m]]

\* lines 136-140
set_check_state_to_tree(tree, cs, item, check_state) ==
    SetChildren(tree, cs, ChildSeq(tree, item), check_state)

\* lines 155-171: the state of an item computed from its children
NewState(tree, cs, item) ==
    LET kids == {m \in Nodes(tree) : tree[m] = item}
        has_checked_children == \E m \in kids : cs[m] = "Checked"
        has_partially_checked_children == \E m \in kids : cs[m] = "PartiallyChecked"
        has_unchecked_children ==
            \E m \in kids : cs[m] \notin {"Checked", "PartiallyChecked"} IN
    IF ~has_partially_checked_children /\ ~has_unchecked_children THEN "Checked"
    ELSE IF has_checked_children \/ has_partially_checked_children THEN "PartiallyChecked"
    ELSE "Unchecked"

\* The loop of lines 150-172 left after its first round.
UpdateParents_once(tree, cs, item) ==
    IF tree[item] = 0 THEN cs
    ELSE [cs EXCEPT ![tree[item]] = NewState(tree, cs, tree[item])]

\* lines 150-172: while True: item = item.parent() ...
RECURSIVE UpdateParents(_, _, _)
UpdateParents(tree, cs, item) ==
    IF tree[item] = 0 THEN cs
    ELSE UpdateParents(tree, [cs EXCEPT ![tree[item]] = NewState(tree, cs, tree[item])],
                       tree[item])

\* lines 146-172 of _update_checkboxes, for a click in column 0
update_checkboxes(tree, cs, item) ==
    UpdateParents(tree, set_check_state_to_tree(tree, cs, item, cs[item]), item)

\* The loop of lines 177-182 taking every box that is not unchecked.
RECURSIVE CountSelected_lenient(_, _, _)
CountSelected_lenient(cs, file_items, acc) ==
    IF file_items = << >> THEN acc
    ELSE CountSelected_lenient(cs, Tail(file_items),
                       IF cs[Head(file_items)] # "Unchecked"
                       THEN [count |-> acc.count + 1, size |-> acc.size + FileLength(Head(file_items))]
                       ELSE acc)

\* lines 177-182: the loop over self._file_items
RECURSIVE CountSelected(_, _, _)
CountSelected(cs, file_items, acc) ==
    IF file_items = << >> THEN acc
    ELSE CountSelected(cs, Tail(file_items),
                       IF cs[Head(file_items)] = "Checked"
                       THEN [count |-> acc.count + 1, size |-> acc.size + FileLength(Head(file_items))]
                       ELSE acc)

\* lines 176-191
update_selection_label(tree, cs) ==
    LET sel == CountSelected(cs, FileItems(tree), [count |-> 0, size |-> 0]) IN
    /\ selectionLabel' = IF sel.count = 0 THEN [count |-> 0, size |-> 0] ELSE sel
    /\ okEnabled' = (sel.count # 0)

\* TorrentAddingDialog.__init__ (lines 116-132): every item is checked (line
\* 46), the label shows all files and the total size, OK is enabled.
DialogInit ==
    /\ fileTree \in TreeShapes
    /\ checkState = [n \in Nodes(fileTree) |-> "Checked"]
    /\ selectionLabel = CountSelected(checkState, FileItems(fileTree), [count |-> 0, size |-> 0])
    /\ okEnabled = TRUE

\* A click on the check box of an item: the view toggles the box (a box that
\* is not checked becomes checked), then itemClicked runs _update_checkboxes.
ClickCheckBox(item) ==
    LET toggled == [checkState EXCEPT ![item] =
                       IF @ = "Checked" THEN "Unchecked" ELSE "Checked"]
        cs == update_checkboxes(fileTree, toggled, item) IN
    /\ item \in Nodes(fileTree)
    /\ checkState' = cs
    /\ update_selection_label(fileTree, cs)
    /\ UNCHANGED <<procVars, lastCall, listVars, actVars, fileTree>>

\* A click on the name of an item: itemClicked(item, 0) with the box as it is.
ClickName(item) ==
    LET cs == update_checkboxes(fileTree, checkState, item) IN
    /\ item \in Nodes(fileTree)
    /\ checkState' = cs
    /\ update_selection_label(fileTree, cs)
    /\ UNCHANGED <<procVars, lastCall, listVars, actVars, fileTree>>

\* A click in the Size column: lines 143-144 return.
ClickSize(item) ==
    /\ item \in Nodes(fileTree)
    /\ UNCHANGED vars

NextDialog ==
    \E item \in 1..MaxNodes :
        \/ ClickCheckBox(item)
        \/ ClickName(item)
        \/ ClickSize(item)

InitDialog == ProcInit /\ (\A p \in Proc : filenames[p] = << >>) /\ WindowInit /\ DialogInit

SpecDialog == InitDialog /\ [][NextDialog]_vars

\* ----------------------------------------------------------------- claims
\* Number of async_stop coroutines scheduled on the loop of p.
Scheduled(p) == Cardinality({c \in Callers : task[p][AsyncStopT(c)] # "none"})
Begun(p, t) == task[p][t] \notin {"none", "new"}
Hosting(p) == engine[p] = "started" /\ server[p] = "listening"

\* C1: at most one process at a time is hosting (started engine and a Listener
\* on the endpoint), and a process whose probe found another process's running
\* instance has not started an engine of its own.
C1_SingleInstance ==
    /\ Cardinality({p \in Proc : Hosting(p)}) <= 1
    /\ \A p \in Proc :
         probeResult[p] = "True" /\ probeTo[p] # p => engine[p] \notin {"starting", "started"}

\* C2: a process that carried work items and whose probe succeeded started no
\* loop thread (no engine), shows no window, and does not go on into
\* app.exec_(): it terminates.
C2_ForwardThenExit ==
    \A p \in Proc :
        probeResult[p] = "True" =>
            /\ tpc[p] = "unstarted"
            /\ ~windowShown[p]
            /\ mainPc[p] # "exec"

C4_ProbeFailureSwallowed == \A p \in Proc : mainPc[p] # "crashed"

\* C5: stop() called twice schedules one async_stop, and every caller returns
\* only after the shutdown has completed and the thread has exited.
C5_StopOnce ==
    \A p \in Proc :
        /\ Scheduled(p) <= 1
        /\ \A c \in Callers : callerPc[p][c] = "returned" =>
               /\ ThreadEnded(p)
               /\ \E d \in Callers : stopFut[p][d] = "done"

C7_StopNeverRaises == \A p \in Proc : \A c \in Callers : callerPc[p][c] # "raised"

\* C8: the Listener's start begins only after the engine's start has completed,
\* so whenever the Listener is listening the engine has been started.
C8_EngineBeforeListener ==
    \A p \in Proc :
        /\ task[p][ServerStartT] # "none" => task[p][EngineStartT] = "done"
        /\ server[p] = "listening" => task[p][EngineStartT] = "done"

C8_Witness == server[1] = "listening" /\ engine[1] = "started" /\ tpc[1] = "run531"

\* C9 as claimed: persisted state is read at most once, and the thread is at
\* the read (line 526) only while the Listener has not been started.
C9_LoadBeforeListener ==
    \A p \in Proc :
        /\ loads[p] <= 1
        /\ tpc[p] = "L526" => task[p][ServerStartT] = "none"

\* C9 as amended: persisted state is read at most once, at startup, after the
\* Listener's start has completed and before the periodic dumps are started
\* and the loop's run phase is entered.
C9_LoadAfterListener ==
    \A p \in Proc :
        /\ loads[p] <= 1
        /\ tpc[p] = "L526" => loads[p] = 0 /\ task[p][ServerStartT] = "done"
        /\ loads[p] = 0 => task[p][DumperT] = "none" /\ tpc[p] \notin {"run531", "exited"}
        /\ loads[p] = 1 => tpc[p] \in {"L529", "L531", "run531", "exited"}

C9_Witness == loads[1] = 1 /\ server[1] = "listening" /\ tpc[1] = "run531"

\* C10: when load_state raised, exactly one error_happened was emitted, run()
\* went on to start the periodic dumps and to enter run_forever, and the
\* engine and the Listener are still started.
C10_LoadFailureNotFatal ==
    \A p \in Proc :
        loadFailed[p] =>
            /\ errorsEmitted[p] = 1
            /\ tpc[p] \in {"L529", "L531", "run531"}
            /\ tpc[p] # "L529" => task[p][DumperT] # "none"
            /\ Hosting(p)

C10_Witness ==
    \E p \in Proc :
        /\ loadFailed[p]
        /\ tpc[p] = "run531"
        /\ task[p][DumperT] = "waiting"
        /\ fgQueue[p] = <<ErrorNote>>

\* Actions handed to the loop for target t that the loop has not finished.
Outstanding(t) ==
    Cardinality({i \in 1..Len(actQueue) :
                    actQueue[i].kind \in ActionKinds /\ actQueue[i].target = t})
    + Cardinality({e \in actSuspended : e.target = t})
Waiting(t) ==
    /\ torrent_to_item[t] # 0
    /\ items[RowOfKey(items, torrent_to_item[t])].waiting

\* C11: for every target at most one submitted action is outstanding, and
\* while one is outstanding the target's row is marked waiting (the flag is
\* set with the submission and not cleared before the loop has processed it).
C11_OneOutstanding ==
    \A t \in TorrentIds :
        /\ Outstanding(t) <= 1
        /\ Outstanding(t) = 1 => Waiting(t)

C11_Witness ==
    \E t \in TorrentIds :
        /\ Len(done[t]) = 1
        /\ \E e \in actSuspended : e.target = t /\ e.n > done[t][1]
        /\ Waiting(t)
        /\ \E i \in 1..Len(sigQueue) : sigQueue[i].state.info_hash = t

\* C12: the actions submitted for one target are processed in the order of
\* their submission: the completed ones in increasing submission number, and
\* every action not yet finished was submitted after all the completed ones.
C12_SubmissionOrder ==
    \A t \in TorrentIds :
        /\ \A i, j \in 1..Len(done[t]) : i < j => done[t][i] < done[t][j]
        /\ \A i \in 1..Len(done[t]) :
             /\ \A e \in actSuspended : e.target = t => done[t][i] < e.n
             /\ \A k \in 1..Len(actQueue) :
                  actQueue[k].kind \in ActionKinds /\ actQueue[k].target = t
                      => done[t][i] < actQueue[k].n

C12_Witness ==
    \E t \in TorrentIds :
        /\ done[t] = <<1, 2>>
        /\ torrents[t] = "absent"
        /\ \E e \in actSuspended : e.target = t /\ e.kind = "remove"

\* C13: an action that fails with ValueError surfaces nothing, and every
\* action that fails with another error produces an error notification for the
\* foreground: the errors emitted equal the actions failed otherwise.
C13_FailuresSurfaced == errorsEmitted[1] = otherFailures

\* C20: once an action for a target was swallowed as invalid state and the
\* foreground has received an update the engine emitted for that target
\* afterwards, the target's row is no longer waiting.
C20_PendingCleared ==
    \A t \in TorrentIds : sinceSwallow[t] = -2 => ~Waiting(t)

Interior(n) == n \in Nodes(fileTree) /\ ~IsFile(fileTree, n)
Kids(n) == {m \in Nodes(fileTree) : fileTree[m] = n}
RECURSIVE Ancestors(_)
Ancestors(n) == IF fileTree[n] = 0 THEN {} ELSE {fileTree[n]} \cup Ancestors(fileTree[n])
Subtree(n) == {n} \cup {m \in Nodes(fileTree) : n \in Ancestors(m)}
\* The states after checking item n and then unchecking it, as the boxes are now.
CheckThenUncheck(n) ==
    LET checked == update_checkboxes(fileTree, [checkState EXCEPT ![n] = "Checked"], n) IN
    update_checkboxes(fileTree, [checked EXCEPT ![n] = "Unchecked"], n)
Restored(n) == \A m \in Subtree(n) \cup Ancestors(n) : CheckThenUncheck(n)[m] = checkState[m]

\* C14: every item with children is checked iff all its children are checked,
\* unchecked iff all its children are unchecked, and partially checked
\* otherwise.
C14_InteriorFromChildren ==
    \A n \in Nodes(fileTree) :
        Interior(n) =>
            /\ checkState[n] \in {"Checked", "Unchecked", "PartiallyChecked"}
            /\ checkState[n] = "Checked" <=> \A m \in Kids(n) : checkState[m] = "Checked"
            /\ checkState[n] = "Unchecked" <=> \A m \in Kids(n) : checkState[m] = "Unchecked"

C14_Witness ==
    \E n, m \in Nodes(fileTree) :
        /\ Interior(m)
        /\ fileTree[m] = n
        /\ checkState[m] = "Unchecked"
        /\ checkState[n] = "PartiallyChecked"
        /\ fileTree[n] # 0
        /\ checkState[fileTree[n]] = "PartiallyChecked"

\* C15 as claimed: for every item that is not checked, checking it and then
\* unchecking it restores the states of its subtree and of its ancestors.
C15_RoundTrip ==
    \A n \in Nodes(fileTree) : checkState[n] # "Checked" => Restored(n)

\* C15 as amended: for every item that is unchecked (its whole subtree is then
\* unchecked), checking it and then unchecking it restores the states of its
\* subtree and of its ancestors.
C15_RoundTripUnchecked ==
    \A n \in Nodes(fileTree) :
        checkState[n] = "Unchecked" =>
            /\ \A m \in Subtree(n) : checkState[m] = "Unchecked"
            /\ Restored(n)

C15_Witness ==
    \E n \in Nodes(fileTree) :
        /\ Interior(n)
        /\ checkState[n] = "Unchecked"
        /\ fileTree[n] # 0
        /\ checkState[fileTree[n]] = "PartiallyChecked"
        /\ update_checkboxes(fileTree, [checkState EXCEPT ![n] = "Checked"], n)[fileTree[n]]
               = "Checked"

RECURSIVE SumLengths(_)
SumLengths(S) == IF S = {} THEN 0
                 ELSE LET n == CHOOSE x \in S : TRUE IN FileLength(n) + SumLengths(S \ {n})
CheckedFiles == {n \in Nodes(fileTree) : IsFile(fileTree, n) /\ checkState[n] = "Checked"}
AllFiles == {n \in Nodes(fileTree) : IsFile(fileTree, n)}

\* C16: the label shows the number of files whose box is checked and the sum
\* of their lengths: all files and the total length when every box is
\* checked, (0, 0) when every box is unchecked; OK is enabled iff at least one
\* file is checked.
C16_SelectedLeaves ==
    fileTree # << >> =>
        /\ selectionLabel = [count |-> Cardinality(CheckedFiles), size |-> SumLengths(CheckedFiles)]
        /\ okEnabled <=> CheckedFiles # {}
        /\ (\A n \in Nodes(fileTree) : checkState[n] = "Checked") =>
               selectionLabel = [count |-> Cardinality(AllFiles), size |-> SumLengths(AllFiles)]
        /\ (\A n \in Nodes(fileTree) : checkState[n] = "Unchecked") =>
               selectionLabel = [count |-> 0, size |-> 0] /\ ~okEnabled

C16_Witness ==
    /\ okEnabled
    /\ selectionLabel.count = 2
    /\ selectionLabel.size = 3
    /\ Cardinality(AllFiles) = 3
    /\ \E n \in AllFiles : checkState[n] = "PartiallyChecked"

HasRow(t) == \E r \in 1..Len(items) : items[r].state.info_hash = t

\* C17: the displayed rows are sorted by name: every row's name is at most
\* the name of the row below it.
C17_Sorted ==
    \A i \in 1..(Len(items) - 1) :
        items[i].state.suggested_name <= items[i + 1].state.suggested_name

C17_Witness ==
    /\ Len(items) = 3
    /\ items[1].key = 2 /\ items[2].key = 3 /\ items[3].key = 1
    /\ items[1].state.suggested_name = items[2].state.suggested_name
    /\ items[2].state.suggested_name < items[3].state.suggested_name
    /\ lastCall.op = "add"

\* C18: a call of the insert slot with an info hash that already has a row
\* leaves the rows and the index as they were.
C18_DuplicateRejected ==
    [][lastCall'.op = "add" /\ HasRow(lastCall'.arg)
           => items' = items /\ torrent_to_item' = torrent_to_item]_vars

\* C19: a call of the remove slot with an info hash that has a row removes the
\* one row with that hash and leaves the other rows in their order; with a
\* hash that has no row it raises and leaves the rows and the index as they
\* were.
C19_RemoveExactlyOne ==
    [][lastCall'.op = "remove" =>
           IF HasRow(lastCall'.arg)
           THEN /\ items' = SelectSeq(items, LAMBDA it : it.state.info_hash # lastCall'.arg)
                /\ Len(items') = Len(items) - 1
                /\ torrent_to_item' = [torrent_to_item EXCEPT ![lastCall'.arg] = 0]
                /\ slotOutcome' = "ok"
           ELSE /\ slotOutcome' = "KeyError"
                /\ items' = items
                /\ torrent_to_item' = torrent_to_item]_vars

\* C21: every file (an item without children) is checked or unchecked, never
\* partially checked, after any sequence of clicks.
C21_LeafNeverPartial ==
    \A n \in Nodes(fileTree) :
        IsFile(fileTree, n) => checkState[n] \in {"Checked", "Unchecked"}

\* The name a row was inserted with (rows are inserted with the name that
\* belongs to their info hash; an update keeps the row's info hash).
InsertedName(it) == SuggestedName(it.state.info_hash)
ItemKeys(its) == [i \in 1..Len(its) |-> its[i].key]
\* The number of rows the scan passes when it compares insertion-time names.
RECURSIVE KeyUpper(_, _, _)
KeyUpper(its, name, i) ==
    IF i > Len(its) THEN Len(its)
    ELSE IF InsertedName(its[i]) > name THEN i - 1
    ELSE KeyUpper(its, name, i + 1)

\* C22: an update leaves every row at its position, and an insert of a
\* torrent that has no row puts the new row where the scan over the names the
\* rows were inserted with puts it, whatever names later updates carried.
C22_KeyFixedAtInsertion ==
    [][/\ lastCall'.op = "update" => ItemKeys(items') = ItemKeys(items)
       /\ lastCall'.op = "add" /\ ~HasRow(lastCall'.arg) =>
              ItemKeys(items') =
                  InsertAt(ItemKeys(items),
                           KeyUpper(items, SuggestedName(lastCall'.arg), 1),
                           FreshKey(items))]_vars

\* The row the last insert added.
NewRow == CHOOSE i \in 1..Len(items) : items[i].key = torrent_to_item[lastCall.arg]

\* C23: an insert puts the new row after every row whose name is less than or
\* equal to its own and before every row whose name is greater (rows of equal
\* name in arrival order), and leaves the other rows in their order.
C23_StableInsert ==
    [][lastCall'.op = "add" =>
          \E p \in 1..Len(items') :
              /\ items'[p].key = FreshKey(items)
              /\ items'[p].state.info_hash = lastCall'.arg
              /\ TakeAt(items', p) = items
              /\ \A i \in 1..(p - 1) :
                     items'[i].state.suggested_name <= items'[p].state.suggested_name
              /\ \A i \in (p + 1)..Len(items') :
                     items'[i].state.suggested_name > items'[p].state.suggested_name]_vars

C23_Witness ==
    /\ lastCall.op = "add"
    /\ Len(items) = 3
    /\ torrent_to_item[lastCall.arg] # 0
    /\ NewRow = 2
    /\ items[1].state.suggested_name = items[2].state.suggested_name
    /\ items[1].state.info_hash # items[2].state.info_hash
    /\ items[3].state.suggested_name > items[2].state.suggested_name

\* C24: the Client of a process's probe never connects to the Listener of the
\* same process.
C24_NoSelfProbe ==
    \A p \in Proc : probeTo[p] # p

\* The callbacks control.add(t) handed to the loop and not yet run.
PendingAdds(t) ==
    {i \in 1..Len(actQueue) : actQueue[i].kind = "add" /\ actQueue[i].target = t}

\* C25: a torrent is handed to the engine's add only while no earlier add of
\* it is still to be run and the engine does not hold it.
C25_NoDoubleAdd ==
    \A t \in TorrentIds :
        /\ Cardinality(PendingAdds(t)) <= 1
        /\ PendingAdds(t) # {} => torrents[t] = "absent"

====
